---------------------------- MODULE Spec2Model ----------------------------
(* A model of the Stress Test dashboard (src/app.py): the totals-mode      *)
(* ingestion load_excel_total, the Streamlit script that filters the fact  *)
(* table and renders it, and the peer analysis.                            *)
(*                                                                         *)
(* Text values (sheet names, portfolios, scenarios) are tuples of          *)
(* one-character strings, so that "_" in sheet, sheet.split("_", 1) and    *)
(* sorted(...) are computed and not assumed.                               *)
EXTENDS Integers, Sequences, FiniteSets, Bags, TLC

VARIABLES
    file,       \* the workbook at FILE_PATH: [exists, sheets]
    ret,        \* load spec: outcome of load_excel_total on file, or NotRun
    base,       \* load spec: outcome on the workbook before a sheet was added
    cache,      \* st.cache_data's entries for load_excel_total: {[key, value]}
    ss,         \* st.session_state of the browser session
    w,          \* the state of the widgets that carry no key
    run,        \* what the last run of the script computed and showed
    stale       \* the file was written since the script last ran

loadOnly == <<ret, base>>

appOnly == <<cache, ss, w, run, stale>>

vars == <<file, ret, base, cache, ss, w, run, stale>>

-----------------------------------------------------------------------------
(* Bounds *)

MaxSheets == 2

-----------------------------------------------------------------------------
(* Cells and text *)

\* a missing cell as pandas reads it (NaN); never equal to a text value
NaN == <<"#NaN">>

Underscore == "_"

\* the code point of a character: Python compares str by code point
Ord(c) ==
    CASE c = "A" -> 65 [] c = "B" -> 66 [] c = "C" -> 67 [] c = "P" -> 80
      [] c = "S" -> 83 [] c = "X" -> 88 [] c = "Y" -> 89 [] c = "_" -> 95

RECURSIVE find(_, _, _)
\* str.find from position i (1-based); 0 when c does not occur
find(s, c, i) ==
    IF i > Len(s) THEN 0
    ELSE IF s[i] = c THEN i
    ELSE find(s, c, i + 1)

\* "_" in sheet
contains(s, c) == find(s, c, 1) # 0

\* a plausible slip: rsplit, cutting at the last underscore
RECURSIVE rfind(_, _, _)
rfind(s, c, i) ==
    IF i < 1 THEN 0
    ELSE IF s[i] = c THEN i
    ELSE rfind(s, c, i - 1)

rsplit1(s) ==
    LET k == rfind(s, Underscore, Len(s))
    IN  IF k = 0 THEN <<s>>
        ELSE <<SubSeq(s, 1, k - 1), SubSeq(s, k + 1, Len(s))>>

\* sheet.split("_", 1): cut at the first underscore only
split1(s) ==
    LET k == find(s, Underscore, 1)
    IN  IF k = 0 THEN <<s>>
        ELSE <<SubSeq(s, 1, k - 1), SubSeq(s, k + 1, Len(s))>>

-----------------------------------------------------------------------------
(* Sheets *)

TotalCols == {"Risk Group", "Stress PnL", "Date", "Portfolio", "Scenario"}

\* a row of a sheet: a function from the sheet's column headers to cells
Row(cols, rg, pnl, date, pf, sc) ==
    [c \in cols |->
        CASE c = "Risk Group" -> rg
          [] c = "Stress PnL" -> pnl
          [] c = "Date"       -> date
          [] c = "Portfolio"  -> pf
          [] c = "Scenario"   -> sc
          [] OTHER            -> NaN]

\* a timestamp cell: a calendar day and a time of day
TS(d, t) == [day |-> d, time |-> t]


\* a sheet of the workbook
Sheet(name, cols, rows) == [name |-> name, columns |-> cols, rows |-> rows]

-----------------------------------------------------------------------------
(* load_excel_total *)

NotRun == [outcome |-> "not run", status |-> "not run"]

\* a session that holds none of the four keys yet
Unset == [set |-> FALSE]

\* no widget without key has been shown
NoWidgets == [date |-> <<>>, analysis |-> <<>>, peers |-> <<>>]

\* st.error(msg) followed by st.stop(): the run ends, nothing is returned
StopWith(msg) == [outcome |-> "st.stop", error |-> msg]

\* indexing a frame by a header it does not carry raises KeyError
RaiseKeyError == [outcome |-> "KeyError"]

Returned(df) == [outcome |-> "ok", df |-> df]

\* raw["Risk Group"] == "Total"
is_total(r) == r["Risk Group"] = "Total"

\* df[[...]]: the frame cut to the listed columns
select_columns(df, cols) ==
    [i \in 1..Len(df) |-> [c \in cols |-> df[i][c]]]

\* df[col].fillna(value): only the missing cells take the value
fillna(df, col, value) ==
    [i \in 1..Len(df) |-> [df[i] EXCEPT ![col] = IF @ = NaN THEN value ELSE @]]

RECURSIVE pd_concat(_)
\* pd.concat(frames, ignore_index=True)
pd_concat(frames) ==
    IF frames = <<>> THEN <<>>
    ELSE Head(frames) \o pd_concat(Tail(frames))

\* a plausible slip: no test of the sheet name
skip_sheet_never(sheet) == FALSE

\* if "_" not in sheet: continue
skip_sheet(sheet) == ~contains(sheet.name, Underscore)

\* a plausible slip: an empty list is concatenated and returned
finish_load_no_check(total_rows) == Returned(pd_concat(total_rows))

\* lines 64-68: the end of load_excel_total
finish_load(total_rows) ==
    IF total_rows = <<>>
    THEN StopWith("No 'Total' rows found in Excel sheets")
    ELSE Returned(pd_concat(total_rows))

RECURSIVE load_sheets(_, _, _)
\* the loop over xls.sheet_names, from sheet i on
load_sheets(sheets, i, total_rows) ==
    IF i > Len(sheets) THEN finish_load(total_rows)
    ELSE
    LET sheet == sheets[i]
        parts == split1(sheet.name)
    IN  IF skip_sheet(sheet) THEN load_sheets(sheets, i + 1, total_rows)
        ELSE IF Len(parts) # 2 THEN [outcome |-> "ValueError"]
        ELSE IF "Risk Group" \notin sheet.columns THEN RaiseKeyError
        ELSE
        LET portfolio_sheet == parts[1]
            scenario_sheet == parts[2]
            df_total == SelectSeq(sheet.rows, is_total)
        IN  IF df_total = <<>> THEN load_sheets(sheets, i + 1, total_rows)
            ELSE IF ~(TotalCols \subseteq sheet.columns) THEN RaiseKeyError
            ELSE
            LET cut == select_columns(df_total, TotalCols)
                f1 == fillna(cut, "Portfolio", portfolio_sheet)
                f2 == fillna(f1, "Scenario", scenario_sheet)
            IN  load_sheets(sheets, i + 1, Append(total_rows, f2))

\* load_excel_total(path)
load_excel_total(f) ==
    IF ~f.exists THEN StopWith("File not found")
    ELSE load_sheets(f.sheets, 1, <<>>)

-----------------------------------------------------------------------------
(* The workbooks the ingestion is checked on *)

LoadNames ==
    { <<"A", "_", "X">>, <<"B", "_", "X">>, <<"A", "_", "X", "_", "Y">>,
      <<"_", "X">>, <<"A", "B">>, <<"C">> }

LoadDay == TS(1, 0)

LoadTotalRows ==
    { Row(TotalCols, "Total", 10, LoadDay, pf, sc) :
        pf \in {NaN, <<"P">>}, sc \in {NaN, <<"S">>} }

LoadOtherRow == Row(TotalCols, "Equity", 7, LoadDay, NaN, NaN)

NoOverrideCols == {"Risk Group", "Stress PnL", "Date"}

LoadBodies ==
    { [columns |-> TotalCols, rows |-> rs] :
        rs \in {<<>>, <<LoadOtherRow>>}
               \cup { <<t>> : t \in LoadTotalRows }
               \cup { <<LoadOtherRow, t>> : t \in LoadTotalRows } }
    \cup
    { [columns |-> TotalCols \ {"Risk Group"},
       rows |-> <<Row(TotalCols \ {"Risk Group"}, NaN, 10, LoadDay, NaN, NaN)>>] }
    \cup
    { [columns |-> NoOverrideCols,
       rows |-> <<Row(NoOverrideCols, rg, 10, LoadDay, NaN, NaN)>>] :
        rg \in {"Total", "Equity"} }
    \cup
    { [columns |-> TotalCols \cup {"Notes"},
       rows |-> <<Row(TotalCols \cup {"Notes"}, "Total", 10, LoadDay, NaN, <<"S">>)>>] }

LoadSheets == { Sheet(n, b.columns, b.rows) : n \in LoadNames, b \in LoadBodies }

\* a workbook never holds two sheets of one name
DistinctNames(sheets) ==
    \A i, j \in 1..Len(sheets) : i # j => sheets[i].name # sheets[j].name

SheetSeqs(n) == UNION { [1..k -> LoadSheets] : k \in 0..n }

LoadFiles ==
    { [exists |-> FALSE, sheets |-> <<>>] }
    \cup { [exists |-> TRUE, sheets |-> sq] :
             sq \in { q \in SheetSeqs(MaxSheets) : DistinctNames(q) } }

InsertAt(seq, i, x) == SubSeq(seq, 1, i - 1) \o <<x>> \o SubSeq(seq, i, Len(seq))

-----------------------------------------------------------------------------
(* The ingestion alone: a workbook is loaded, a sheet whose name has no    *)
(* underscore is added to it, and it is loaded again.                      *)

InitLoad ==
    /\ file \in LoadFiles
    /\ ret = NotRun
    /\ base = NotRun
    /\ cache = {}
    /\ ss = Unset
    /\ w = NoWidgets
    /\ run = NotRun
    /\ stale = FALSE

RunLoad ==
    /\ ret = NotRun
    /\ ret' = load_excel_total(file)
    /\ UNCHANGED <<file, base>>
    /\ UNCHANGED appOnly

AddMalformedSheet ==
    /\ ret # NotRun
    /\ base = NotRun
    /\ file.exists
    /\ Len(file.sheets) < MaxSheets
    /\ \E s \in LoadSheets, i \in 1..(Len(file.sheets) + 1) :
          /\ ~contains(s.name, Underscore)
          /\ \A k \in 1..Len(file.sheets) : file.sheets[k].name # s.name
          /\ file' = [file EXCEPT !.sheets = InsertAt(@, i, s)]
    /\ base' = ret
    /\ ret' = NotRun
    /\ UNCHANGED appOnly

NextLoad == RunLoad \/ AddMalformedSheet

SpecLoad == InitLoad /\ [][NextLoad]_vars

-----------------------------------------------------------------------------
(* Frames: sequences of rows *)

\* Python's order on str: by code point, a proper prefix first
RECURSIVE str_less(_, _)
str_less(a, b) ==
    IF b = <<>> THEN FALSE
    ELSE IF a = <<>> THEN TRUE
    ELSE IF Ord(Head(a)) # Ord(Head(b)) THEN Ord(Head(a)) < Ord(Head(b))
    ELSE str_less(Tail(a), Tail(b))

\* sorted(values) of a set of str
RECURSIVE sorted(_)
sorted(S) ==
    IF S = {} THEN <<>>
    ELSE LET m == CHOOSE x \in S : \A y \in S \ {x} : str_less(x, y)
         IN  <<m>> \o sorted(S \ {m})

\* df[col].unique(), as a set
unique(df, col) == { df[i][col] : i \in 1..Len(df) }

\* pd.to_datetime(df["Date"]).dt.date: the calendar day, the time of day dropped
to_date(df) == [i \in 1..Len(df) |-> [df[i] EXCEPT !["Date"] = @.day]]

\* df[mask]: the rows whose mask entry is True, in order
RECURSIVE boolean_index(_, _)
boolean_index(df, mask) ==
    IF df = <<>> THEN <<>>
    ELSE (IF Head(mask) THEN <<Head(df)>> ELSE <<>>)
         \o boolean_index(Tail(df), Tail(mask))

\* a plausible slip: the date test left out of the mask
filter_mask_no_date(df, date_sel, portfolio_sel, scenario_sel) ==
    [i \in 1..Len(df) |->
        /\ df[i]["Portfolio"] \in portfolio_sel
        /\ df[i]["Scenario"] \in scenario_sel]

\* lines 147-149: (Date == date_sel) & Portfolio.isin(...) & Scenario.isin(...)
filter_mask(df, date_sel, portfolio_sel, scenario_sel) ==
    [i \in 1..Len(df) |->
        /\ df[i]["Date"] = date_sel
        /\ df[i]["Portfolio"] \in portfolio_sel
        /\ df[i]["Scenario"] \in scenario_sel]

\* lines 146-150: df_filt
df_filter(df, date_sel, portfolio_sel, scenario_sel) ==
    boolean_index(df, filter_mask(df, date_sel, portfolio_sel, scenario_sel))

\* df.sort_values("Scenario"): rows of equal Scenario keep their order
RECURSIVE sort_values_scenario(_)
sort_values_scenario(df) ==
    IF df = <<>> THEN <<>>
    ELSE LET rest == sort_values_scenario(SubSeq(df, 1, Len(df) - 1))
             r == df[Len(df)]
             k == Cardinality({ i \in 1..Len(rest) :
                                  ~str_less(r["Scenario"], rest[i]["Scenario"]) })
         IN  SubSeq(rest, 1, k) \o <<r>> \o SubSeq(rest, k + 1, Len(rest))

-----------------------------------------------------------------------------
(* Peer statistics. Stress PnL values are integers; the floats computed    *)
(* from them are kept exact: a median as twice its value, a standard       *)
(* deviation as the fraction under its square root, and a quotient by its  *)
(* IEEE class (NaN, +inf, -inf) or its two operands.                       *)

RECURSIVE sum(_)
sum(xs) == IF xs = <<>> THEN 0 ELSE Head(xs) + sum(Tail(xs))

RECURSIVE sort_numbers(_)
sort_numbers(xs) ==
    IF xs = <<>> THEN <<>>
    ELSE LET rest == sort_numbers(Tail(xs))
             k == Cardinality({ i \in 1..Len(rest) : rest[i] < Head(xs) })
         IN  SubSeq(rest, 1, k) \o <<Head(xs)>> \o SubSeq(rest, k + 1, Len(rest))

\* Series.median(), as twice the median: the middle value, or the mean of
\* the two middle values
median_twice(xs) ==
    LET v == sort_numbers(xs)
        n == Len(v)
    IN  IF n % 2 = 1 THEN 2 * v[(n + 1) \div 2]
        ELSE v[n \div 2] + v[n \div 2 + 1]

FloatNaN == [kind |-> "nan"]

\* Series.std() (ddof = 1): NaN under two values, else the root of
\* (n * sum(x^2) - sum(x)^2) / (n * (n - 1))
sample_std(xs) ==
    LET n == Len(xs)
        sq == [i \in 1..n |-> xs[i] * xs[i]]
    IN  IF n < 2 THEN FloatNaN
        ELSE [kind |-> "sqrt", num |-> n * sum(sq) - sum(xs) * sum(xs),
              den |-> n * (n - 1)]

\* float division of (twice_diff / 2) by a standard deviation, as numpy
\* does it: x / NaN = NaN, 0 / 0 = NaN, x / 0 = +-inf
float_divide(twice_diff, std) ==
    IF std.kind = "nan" THEN FloatNaN
    ELSE IF std.num = 0 THEN
        IF twice_diff = 0 THEN FloatNaN
        ELSE IF twice_diff > 0 THEN [kind |-> "inf"]
        ELSE [kind |-> "-inf"]
    ELSE [kind |-> "quotient", twice_num |-> twice_diff, by |-> std]

\* the Stress PnL values of the rows of one Scenario, in order
values_of(df, scenario) ==
    LET rows == SelectSeq(df, LAMBDA r : r["Scenario"] = scenario)
    IN  [i \in 1..Len(rows) |-> rows[i]["Stress PnL"]]

\* lines 298-305: groupby("Scenario").agg(median, std), one row per
\* Scenario of the peers, in sorted order
peer_stats(df_peers) ==
    LET keys == sorted(unique(df_peers, "Scenario"))
    IN  [i \in 1..Len(keys) |->
            [Scenario |-> keys[i],
             peer_median_twice |-> median_twice(values_of(df_peers, keys[i])),
             peer_std |-> sample_std(values_of(df_peers, keys[i]))]]

\* one row of df_plot: the analysis row and, when there are any, the peers'
\* statistics of its Scenario
plot_row(r, st) ==
    [Scenario |-> r["Scenario"],
     stress_pnl |-> r["Stress PnL"],
     peer_median_twice |-> st.peer_median_twice,
     peer_std |-> st.peer_std]

NoStats == [peer_median_twice |-> 0, peer_std |-> FloatNaN]

\* a plausible slip: how="left", analysis rows without peers kept
RECURSIVE merge_left(_, _)
merge_left(df_analysis, df_peer_stats) ==
    IF df_analysis = <<>> THEN <<>>
    ELSE LET r == Head(df_analysis)
             m == SelectSeq(df_peer_stats, LAMBDA t : t.Scenario = r["Scenario"])
         IN  (IF m = <<>> THEN <<plot_row(r, NoStats)>>
              ELSE [i \in 1..Len(m) |-> plot_row(r, m[i])])
             \o merge_left(Tail(df_analysis), df_peer_stats)

\* lines 308-312: df_analysis.merge(df_peer_stats, on="Scenario", how="inner")
RECURSIVE merge_inner(_, _)
merge_inner(df_analysis, df_peer_stats) ==
    IF df_analysis = <<>> THEN <<>>
    ELSE LET r == Head(df_analysis)
             m == SelectSeq(df_peer_stats, LAMBDA t : t.Scenario = r["Scenario"])
         IN  [i \in 1..Len(m) |-> plot_row(r, m[i])]
             \o merge_inner(Tail(df_analysis), df_peer_stats)

\* lines 315-318: the z_score column
with_z_score(df) ==
    [i \in 1..Len(df) |->
        [Scenario |-> df[i].Scenario,
         stress_pnl |-> df[i].stress_pnl,
         peer_median_twice |-> df[i].peer_median_twice,
         peer_std |-> df[i].peer_std,
         z_score |-> float_divide(2 * df[i].stress_pnl - df[i].peer_median_twice,
                                  df[i].peer_std)]]

\* df_plot.sort_values("Scenario")
RECURSIVE sort_plot(_)
sort_plot(df) ==
    IF df = <<>> THEN <<>>
    ELSE LET rest == sort_plot(SubSeq(df, 1, Len(df) - 1))
             r == df[Len(df)]
             k == Cardinality({ i \in 1..Len(rest) :
                                  ~str_less(r.Scenario, rest[i].Scenario) })
         IN  SubSeq(rest, 1, k) \o <<r>> \o SubSeq(rest, k + 1, Len(rest))

\* lines 288-320: df_plot
peer_analysis(df_filt, analysis_portfolio, peer_portfolios) ==
    LET df_analysis == SelectSeq(df_filt, LAMBDA r : r["Portfolio"] = analysis_portfolio)
        df_peers == SelectSeq(df_filt, LAMBDA r : r["Portfolio"] \in peer_portfolios)
    IN  sort_plot(with_z_score(merge_inner(df_analysis, peer_stats(df_peers))))

-----------------------------------------------------------------------------
(* The script: one run from top to bottom *)

FILE_PATH == "stress_test.xlsx"

\* @st.cache_data keys a call on the function and its arguments: here the
\* Path passed in, which names the file and says nothing of its content
cache_key(path) == path

cache_hit(c, key) == \E e \in c : e.key = key

cache_value(c, key) == (CHOOSE e \in c : e.key = key).value

cache_put(c, key, value) ==
    { e \in c : e.key # key } \cup { [key |-> key, value |-> value] }

NoDataWarning == "warning: No data available with the selected filters"

TwoPortfoliosInfo ==
    "info: Peer analysis available only when at least two portfolios are selected."

NoPeerWarning == "warning: Select at least one peer portfolio."

Range(seq) == { seq[i] : i \in 1..Len(seq) }

SetMax(S) == CHOOSE x \in S : \A y \in S : y <= x

SetMin(S) == CHOOSE x \in S : \A y \in S : x <= y

\* lines 87-94: the four keys are set when the session does not hold them
init_session_state(s, all_portfolios, all_scenarios) ==
    IF s.set THEN s
    ELSE [set |-> TRUE,
          portfolio_all |-> TRUE,
          scenario_all |-> TRUE,
          portfolio_sel |-> all_portfolios,
          scenario_sel |-> all_scenarios]

\* the value of a widget without key: what the user left in it while the
\* arguments that identify the widget are the same, its default otherwise
widget_value(state, id, default) ==
    IF state # <<>> /\ state[1].id = id THEN state[1].value ELSE default

\* lines 170-200: the table of one portfolio, Scenario and Stress PnL
df_display(df_filt, p) ==
    LET df_port == sort_values_scenario(SelectSeq(df_filt, LAMBDA r : r["Portfolio"] = p))
    IN  [i \in 1..Len(df_port) |->
            [Scenario |-> df_port[i]["Scenario"],
             stress_pnl |-> df_port[i]["Stress PnL"]]]

\* lines 155-226: the charts, tables and downloads by portfolio
render_portfolios(df_filt) ==
    IF df_filt = <<>>
    THEN [shown |-> {NoDataWarning}, excel_data |-> <<>>, show_full_excel |-> FALSE]
    ELSE LET visible_portfolios == unique(df_filt, "Portfolio")
         IN  [shown |-> {},
              excel_data |-> [p \in visible_portfolios |-> df_display(df_filt, p)],
              show_full_excel |-> Cardinality(visible_portfolios) > 1]

\* line 231: if excel_data and show_full_excel
full_download(r) == DOMAIN r.excel_data # {} /\ r.show_full_excel

\* a plausible slip: the test written for exactly one portfolio
too_few_portfolios_eq(df_filt) == Cardinality(unique(df_filt, "Portfolio")) = 1

\* line 255: df_filt["Portfolio"].nunique() < 2
too_few_portfolios(df_filt) == Cardinality(unique(df_filt, "Portfolio")) < 2

\* a plausible slip: the test of the peers left out
no_peers_unchecked(peer_portfolios) == FALSE

\* line 280: if not peer_portfolios
no_peers(peer_portfolios) == peer_portfolios = {}

NoPeerSection ==
    [analysis_options |-> <<>>, analysis_portfolio |-> NaN,
     peer_options |-> <<>>, peer_portfolios |-> {}, df_plot |-> <<>>]

\* lines 255-379: the peer analysis section
render_peers(df_filt, wd) ==
    IF too_few_portfolios(df_filt)
    THEN NoPeerSection @@
         [peer_shown |-> {TwoPortfoliosInfo}, peer_computed |-> FALSE,
          peer_controls |-> FALSE]
    ELSE
    LET options == sorted(unique(df_filt, "Portfolio"))
        analysis_portfolio ==
            IF options = <<>> THEN NaN
            ELSE widget_value(wd.analysis, options, options[1])
        peer_options == SelectSeq(options, LAMBDA p : p # analysis_portfolio)
        peer_portfolios == widget_value(wd.peers, peer_options, Range(peer_options))
        controls == [analysis_options |-> options,
                     analysis_portfolio |-> analysis_portfolio,
                     peer_options |-> peer_options,
                     peer_portfolios |-> peer_portfolios,
                     peer_controls |-> TRUE]
    IN  IF no_peers(peer_portfolios)
        THEN controls @@
             [peer_shown |-> {NoPeerWarning}, peer_computed |-> FALSE, df_plot |-> <<>>]
        ELSE controls @@
             [peer_shown |-> {}, peer_computed |-> TRUE,
              df_plot |-> peer_analysis(df_filt, analysis_portfolio, peer_portfolios)]

\* line 71: the call of the cached function; the body runs, and its value
\* is stored, only when no entry has the key; st.stop() and exceptions
\* store nothing
cached_load(f, c) ==
    LET key == cache_key(FILE_PATH)
    IN  IF cache_hit(c, key)
        THEN [outcome |-> "ok", df |-> cache_value(c, key), parsed |-> FALSE]
        ELSE load_excel_total(f) @@ [parsed |-> TRUE]

\* lines 78-79, 114-119: what identifies the date input: its default (the
\* last date), its minimum and its maximum
date_input_id(df_total) ==
    LET available_dates == unique(df_total, "Date")
    IN  <<SetMax(available_dates), SetMin(available_dates), SetMax(available_dates)>>

\* the widgets without key, as a run that showed them leaves them
widgets_after(date_id, date_sel, peers) ==
    [date |-> <<[id |-> date_id, value |-> date_sel]>>,
     analysis |-> IF peers.peer_controls
                  THEN <<[id |-> peers.analysis_options,
                          value |-> peers.analysis_portfolio]>>
                  ELSE <<>>,
     peers |-> IF peers.peer_controls
               THEN <<[id |-> peers.peer_options, value |-> peers.peer_portfolios]>>
               ELSE <<>>]

\* lines 99-102: the callback of "Select all portfolios"
toggle_portfolio_all(s, all_portfolios) ==
    [s EXCEPT !.portfolio_sel = IF s.portfolio_all THEN all_portfolios ELSE {}]

\* lines 104-107: the callback of "Select all scenarios"
toggle_scenario_all(s, all_scenarios) ==
    [s EXCEPT !.scenario_sel = IF s.scenario_all THEN all_scenarios ELSE {}]

-----------------------------------------------------------------------------
(* The workbooks the dashboard is run on *)

TotalRow(pnl, day, time, pf, sc) ==
    Row(TotalCols, "Total", pnl, TS(day, time), pf, sc)

EquityRow(pnl, day) == Row(TotalCols, "Equity", pnl, TS(day, 0), NaN, NaN)

\* three portfolios on day 3, one older row on day 1, nothing on day 2;
\* B and C agree on scenario X, and only A and C have scenario Y
BookThreeFunds ==
    << Sheet(<<"A", "_", "X">>, TotalCols,
             <<TotalRow(120, 3, 0, NaN, NaN), TotalRow(50, 1, 0, NaN, NaN)>>),
       Sheet(<<"B", "_", "X">>, TotalCols,
             <<EquityRow(40, 3), TotalRow(100, 3, 1, NaN, NaN)>>),
       Sheet(<<"C", "_", "X">>, TotalCols, <<TotalRow(100, 3, 0, NaN, NaN)>>),
       Sheet(<<"A", "_", "Y">>, TotalCols, <<TotalRow(5, 3, 0, NaN, NaN)>>),
       Sheet(<<"C", "_", "Y">>, TotalCols, <<TotalRow(9, 3, 0, NaN, NaN)>>),
       Sheet(<<"A", "B">>, TotalCols, <<TotalRow(1, 3, 0, NaN, NaN)>>) >>

\* one day; a Total row entered twice, and rows that name their portfolio
BookRepeatedRows ==
    << Sheet(<<"A", "_", "X">>, TotalCols,
             <<TotalRow(10, 2, 0, NaN, NaN), TotalRow(10, 2, 0, NaN, NaN)>>),
       Sheet(<<"B", "_", "X">>, TotalCols,
             <<TotalRow(30, 2, 0, NaN, NaN), TotalRow(50, 2, 1, <<"C">>, NaN)>>),
       Sheet(<<"B", "_", "Y">>, TotalCols, <<TotalRow(7, 2, 0, NaN, NaN)>>),
       Sheet(<<"A", "_", "Y">>, TotalCols, <<TotalRow(20, 2, 0, NaN, NaN)>>) >>

\* one portfolio only
BookOneFund ==
    << Sheet(<<"A", "_", "X">>, TotalCols, <<TotalRow(1, 2, 0, NaN, NaN)>>),
       Sheet(<<"A", "_", "Y">>, TotalCols, <<TotalRow(2, 2, 0, NaN, NaN)>>) >>

\* no Total row in a sheet that counts
BookNoTotals ==
    << Sheet(<<"A", "_", "X">>, TotalCols, <<EquityRow(3, 2)>>),
       Sheet(<<"C">>, TotalCols, <<TotalRow(4, 2, 0, NaN, NaN)>>) >>

\* a sheet without the Risk Group column
BookNoRiskGroup ==
    << Sheet(<<"A", "_", "X">>, TotalCols \ {"Risk Group"},
             <<Row(TotalCols \ {"Risk Group"}, NaN, 3, TS(2, 0), NaN, NaN)>>) >>

AppFiles ==
    { [exists |-> FALSE, sheets |-> <<>>] }
    \cup { [exists |-> TRUE, sheets |-> b] :
             b \in {BookThreeFunds, BookRepeatedRows, BookOneFund,
                    BookNoTotals, BookNoRiskGroup} }

-----------------------------------------------------------------------------
(* The dashboard: every interaction of the user sets a widget, runs its    *)
(* callback if it has one, and runs the script again from the top.         *)

Init ==
    /\ file \in AppFiles
    /\ cache = {}
    /\ ss = Unset
    /\ w = NoWidgets
    /\ run = NotRun
    /\ stale = FALSE
    /\ ret = NotRun
    /\ base = NotRun

\* one run of the script from top to bottom, in a session whose state is s
\* and whose widgets without key hold wd
RunScript(s, wd) ==
    /\ \E loaded \in {cached_load(file, cache)} :
         IF loaded.outcome # "ok"
         THEN /\ cache' = cache
              /\ ss' = s
              /\ w' = NoWidgets
              /\ run' = [status |-> loaded.outcome, parsed |-> TRUE]
         ELSE
         \E df_total \in {to_date(loaded.df)} :
         \E s1 \in {init_session_state(s, unique(df_total, "Portfolio"),
                                       unique(df_total, "Scenario"))} :
         \E date_id \in {date_input_id(df_total)} :
         \E date_sel \in {widget_value(wd.date, date_id, date_id[1])} :
         \E df_filt \in {df_filter(df_total, date_sel, s1.portfolio_sel,
                                  s1.scenario_sel)} :
         \E tables \in {render_portfolios(df_filt)} :
         \E peers \in {render_peers(df_filt, wd)} :
              /\ cache' = cache_put(cache, cache_key(FILE_PATH), loaded.df)
              /\ ss' = s1
              /\ w' = widgets_after(date_id, date_sel, peers)
              /\ run' = [status |-> "done",
                         parsed |-> loaded.parsed,
                         df_total |-> df_total,
                         all_portfolios |-> unique(df_total, "Portfolio"),
                         all_scenarios |-> unique(df_total, "Scenario"),
                         date_id |-> date_id,
                         date_sel |-> date_sel,
                         df_filt |-> df_filt,
                         full_download |-> full_download(tables)]
                        @@ tables @@ peers
    /\ stale' = FALSE
    /\ UNCHANGED <<file, ret, base>>

Shown == run.status = "done"

\* the page is opened, or run again with no widget touched
Rerun == RunScript(ss, w)

\* the page is reloaded in the browser: a new session, the same server
NewSession ==
    /\ run.status # "not run"
    /\ RunScript(Unset, NoWidgets)

\* the date input takes any day between the first and the last date
SetDate ==
    /\ Shown
    /\ \E d \in run.date_id[2]..run.date_id[3] :
          /\ d # run.date_sel
          /\ RunScript(ss, [w EXCEPT !.date = <<[id |-> run.date_id, value |-> d]>>])

\* one portfolio is added to or taken out of the Portfolio multiselect
EditPortfolioSel ==
    /\ Shown
    /\ \E p \in run.all_portfolios :
          LET new == IF p \in ss.portfolio_sel THEN ss.portfolio_sel \ {p}
                     ELSE ss.portfolio_sel \cup {p}
          IN  RunScript([ss EXCEPT !.portfolio_sel = new], w)

\* one scenario is added to or taken out of the Scenario multiselect
EditScenarioSel ==
    /\ Shown
    /\ \E x \in run.all_scenarios :
          LET new == IF x \in ss.scenario_sel THEN ss.scenario_sel \ {x}
                     ELSE ss.scenario_sel \cup {x}
          IN  RunScript([ss EXCEPT !.scenario_sel = new], w)

\* "Select all portfolios" is clicked: the box flips, its callback runs with
\* the all_portfolios of the run that defined it, then the script runs
TogglePortfolioAll ==
    /\ Shown
    /\ RunScript(toggle_portfolio_all([ss EXCEPT !.portfolio_all = ~@],
                                      run.all_portfolios), w)

\* "Select all scenarios" is clicked
ToggleScenarioAll ==
    /\ Shown
    /\ RunScript(toggle_scenario_all([ss EXCEPT !.scenario_all = ~@],
                                     run.all_scenarios), w)

\* another analysis portfolio is chosen in the selectbox
ChooseAnalysis ==
    /\ Shown /\ run.peer_controls
    /\ \E p \in Range(run.analysis_options) :
          /\ p # run.analysis_portfolio
          /\ RunScript(ss, [w EXCEPT !.analysis =
                                   <<[id |-> run.analysis_options, value |-> p]>>])

\* one portfolio is added to or taken out of the Peer portfolios multiselect
EditPeers ==
    /\ Shown /\ run.peer_controls
    /\ \E p \in Range(run.peer_options) :
          LET new == IF p \in run.peer_portfolios THEN run.peer_portfolios \ {p}
                     ELSE run.peer_portfolios \cup {p}
          IN  RunScript(ss, [w EXCEPT !.peers =
                                   <<[id |-> run.peer_options, value |-> new]>>])

\* the workbook at FILE_PATH is replaced, removed or put back; no run follows
ModifyFile ==
    /\ \E f \in AppFiles : f # file /\ file' = f
    /\ stale' = TRUE
    /\ UNCHANGED <<cache, ss, w, run, ret, base>>

Next ==
    \/ Rerun
    \/ NewSession
    \/ SetDate
    \/ EditPortfolioSel
    \/ EditScenarioSel
    \/ TogglePortfolioAll
    \/ ToggleScenarioAll
    \/ ChooseAnalysis
    \/ EditPeers
    \/ ModifyFile

Spec == Init /\ [][Next]_vars


-----------------------------------------------------------------------------
(* Properties of the ingestion (checked under SpecLoad) *)

\* the rows of the workbook, as <<sheet index, row index>>, whose Risk Group
\* cell reads "Total"
TotalCellsOf(sheets) ==
    { p \in UNION { {<<i, j>> : j \in 1..Len(sheets[i].rows)} : i \in 1..Len(sheets) } :
        /\ "Risk Group" \in sheets[p[1]].columns
        /\ sheets[p[1]].rows[p[2]]["Risk Group"] = "Total" }

NameHasUnderscore(n) == \E k \in 1..Len(n) : n[k] = "_"

\* the Total rows of the sheets whose name holds an underscore
NamedTotalCellsOf(sheets) ==
    { p \in TotalCellsOf(sheets) : NameHasUnderscore(sheets[p[1]].name) }

AllSheetsWellFormed ==
    \A i \in 1..Len(file.sheets) : TotalCols \subseteq file.sheets[i].columns

Loaded == ret # NotRun /\ file.exists

\* C1 as stated: the load ends in st.error + st.stop if and only if the whole
\* workbook, every sheet counted, holds no row with Risk Group == "Total"
\* (stated on workbooks whose sheets all carry the five columns).
C1_Original ==
    (Loaded /\ AllSheetsWellFormed) =>
        /\ ret.outcome = "ok" =>
              \A k \in 1..Len(ret.df) : ret.df[k]["Risk Group"] = "Total"
        /\ ret.outcome = "st.stop" <=> TotalCellsOf(file.sheets) = {}

\* C1 as amended: a returned table holds only Total rows and is not empty, and
\* the load ends in st.error + st.stop if and only if no sheet whose name holds
\* an underscore has a Total row (and each of those sheets has a Risk Group
\* column to look in); Total rows of sheets without underscore do not count.
C1_TotalsOnlyOrStop ==
    Loaded =>
        /\ ret.outcome = "ok" =>
              /\ ret.df # <<>>
              /\ \A k \in 1..Len(ret.df) : ret.df[k]["Risk Group"] = "Total"
        /\ ret.outcome = "st.stop" <=>
              /\ NamedTotalCellsOf(file.sheets) = {}
              /\ \A i \in 1..Len(file.sheets) :
                    NameHasUnderscore(file.sheets[i].name)
                        => "Risk Group" \in file.sheets[i].columns

\* a load that stopped although a sheet without underscore holds a Total row,
\* beside a sheet with an underscore that holds none
C1_Witness ==
    /\ Loaded
    /\ ret.outcome = "st.stop"
    /\ Len(file.sheets) = 2
    /\ TotalCellsOf(file.sheets) # {}
    /\ \E i \in 1..2 : NameHasUnderscore(file.sheets[i].name)

\* C2: adding a sheet whose name has no underscore to a workbook that loads
\* leaves the returned rows as they were, whatever the sheet holds.
C2_MalformedSheetAddsNothing ==
    (base # NotRun /\ ret # NotRun /\ base.outcome = "ok") => ret = base

\* a sheet without underscore that holds a Total row was added, and the
\* workbook was loaded again
C2_Witness ==
    /\ base # NotRun /\ base.outcome = "ok"
    /\ ret # NotRun
    /\ \E i \in 1..Len(file.sheets) :
          /\ ~NameHasUnderscore(file.sheets[i].name)
          /\ <<i, 1>> \in TotalCellsOf(file.sheets)

\* the text before the first underscore of a sheet name, and the text after it
FirstUnderscore(n) ==
    CHOOSE k \in 1..Len(n) : n[k] = "_" /\ \A m \in 1..(k - 1) : n[m] # "_"

NamePrefix(n) == SubSeq(n, 1, FirstUnderscore(n) - 1)

NameRest(n) == SubSeq(n, FirstUnderscore(n) + 1, Len(n))

\* the place of a source row among the emitted rows: sheets in workbook
\* order, rows in sheet order
EmitRank(sheets, p) ==
    Cardinality({ q \in NamedTotalCellsOf(sheets) :
                    q[1] < p[1] \/ (q[1] = p[1] /\ q[2] <= p[2]) })

\* C3: every emitted row carries the Portfolio cell of its source row when
\* that cell is not missing and the sheet name's text before the first
\* underscore otherwise, and the Scenario cell when not missing and the text
\* after the first underscore otherwise.
C3_NameIsFallback ==
    (Loaded /\ ret.outcome = "ok") =>
        /\ Len(ret.df) = Cardinality(NamedTotalCellsOf(file.sheets))
        /\ \A p \in NamedTotalCellsOf(file.sheets) :
             LET sh  == file.sheets[p[1]]
                 raw == sh.rows[p[2]]
                 out == ret.df[EmitRank(file.sheets, p)]
             IN  /\ out["Portfolio"] =
                      IF raw["Portfolio"] # NaN THEN raw["Portfolio"]
                      ELSE NamePrefix(sh.name)
                 /\ out["Scenario"] =
                      IF raw["Scenario"] # NaN THEN raw["Scenario"]
                      ELSE NameRest(sh.name)

\* a table with a row that took both values from the sheet name "A_X_Y" and a
\* row that kept its explicit Portfolio
C3_Witness ==
    /\ Loaded /\ ret.outcome = "ok"
    /\ \E k \in 1..Len(ret.df) :
          /\ ret.df[k]["Portfolio"] = <<"A">>
          /\ ret.df[k]["Scenario"] = <<"X", "_", "Y">>
    /\ \E k \in 1..Len(ret.df) : ret.df[k]["Portfolio"] = <<"P">>

-----------------------------------------------------------------------------
(* Properties of the dashboard (checked under Spec) *)

\* how many times the row r occurs in the frame df
Copies(df, r) == Cardinality({ i \in 1..Len(df) : df[i] = r })

ColumnValues(df, col) == { df[i][col] : i \in 1..Len(df) }

\* C4 as stated: whenever a select-all box is ticked, the selection beside it
\* is the set of all values of the fact table.
C4_SelectAllMeansAll ==
    (Shown /\ ss.set) =>
        /\ ss.portfolio_all => ss.portfolio_sel = ColumnValues(run.df_total, "Portfolio")
        /\ ss.scenario_all => ss.scenario_sel = ColumnValues(run.df_total, "Scenario")

StdZeroOrUndefined(sd) == IF sd.kind = "nan" THEN TRUE ELSE sd.num = 0

\* C5 as stated: a scenario whose peer standard deviation is 0 or undefined
\* is emitted with a missing z_score.
C5_NoDispersionGivesMissing ==
    (Shown /\ run.peer_computed) =>
        \A i \in 1..Len(run.df_plot) :
            StdZeroOrUndefined(run.df_plot[i].peer_std)
                => run.df_plot[i].z_score = FloatNaN

Selected(r) ==
    /\ r["Date"] \in {run.date_sel}
    /\ r["Portfolio"] \in ss.portfolio_sel
    /\ r["Scenario"] \in ss.scenario_sel

\* C6: the filtered table holds each row of the fact table whose Date is the
\* selected date and whose Portfolio and Scenario are selected as often as
\* the fact table does, and no other row; with every date, portfolio and
\* scenario of the fact table selected, it holds every row as often as the
\* fact table.
C6_FilterIsRestriction ==
    Shown =>
        /\ \A r \in Range(run.df_total) \cup Range(run.df_filt) :
              Copies(run.df_filt, r) =
                  IF Selected(r) THEN Copies(run.df_total, r) ELSE 0
        /\ ( /\ ColumnValues(run.df_total, "Date") \subseteq {run.date_sel}
             /\ ColumnValues(run.df_total, "Portfolio") \subseteq ss.portfolio_sel
             /\ ColumnValues(run.df_total, "Scenario") \subseteq ss.scenario_sel )
           => \A r \in Range(run.df_total) \cup Range(run.df_filt) :
                  Copies(run.df_filt, r) = Copies(run.df_total, r)

\* a filtered table that keeps a row twice and leaves other rows out
C6_Witness ==
    /\ Shown
    /\ Len(run.df_filt) < Len(run.df_total)
    /\ \E r \in Range(run.df_filt) : Copies(run.df_filt, r) = 2

ScenariosOf(df, portfolios) ==
    { df[i]["Scenario"] : i \in { k \in 1..Len(df) : df[k]["Portfolio"] \in portfolios } }

\* C7: the scenarios of df_plot are those that have a row of the analysis
\* portfolio and a row of a selected peer in the filtered table.
C7_InnerJoinOnly ==
    (Shown /\ run.peer_computed) =>
        { run.df_plot[i].Scenario : i \in 1..Len(run.df_plot) }
            = ScenariosOf(run.df_filt, {run.analysis_portfolio})
              \cap ScenariosOf(run.df_filt, run.peer_portfolios)

\* a scenario of the analysis portfolio that no peer has was left out, and
\* another scenario was emitted
C7_Witness ==
    /\ Shown /\ run.peer_computed
    /\ run.df_plot # <<>>
    /\ ScenariosOf(run.df_filt, {run.analysis_portfolio})
          \ ScenariosOf(run.df_filt, run.peer_portfolios) # {}

\* C8: the peer statistics are computed only with two portfolios or more in
\* the filtered table and a set of peers that is not empty and does not hold
\* the analysis portfolio; otherwise nothing is computed and one message is
\* shown in their place.
C8_PeerStatsGuarded ==
    Shown =>
        LET ok == /\ Cardinality(ColumnValues(run.df_filt, "Portfolio")) >= 2
                  /\ run.peer_portfolios # {}
                  /\ run.analysis_portfolio \notin run.peer_portfolios
        IN  /\ run.peer_computed => ok /\ run.peer_shown = {}
            /\ ~ok => /\ ~run.peer_computed
                      /\ run.df_plot = <<>>
                      /\ run.peer_shown \in {{TwoPortfoliosInfo}, {NoPeerWarning}}

\* two portfolios are in the filtered table, the user emptied the peers, and
\* nothing was computed
C8_Witness ==
    /\ Shown
    /\ Cardinality(ColumnValues(run.df_filt, "Portfolio")) >= 2
    /\ run.peer_portfolios = {}
    /\ ~run.peer_computed
    /\ run.peer_shown = {NoPeerWarning}

NothingSelected ==
    \/ ss.portfolio_sel = {}
    \/ ss.scenario_sel = {}
    \/ run.date_sel \notin ColumnValues(run.df_total, "Date")

\* C9: once the session holds a selection every run completes, and a run
\* with no portfolio or no scenario selected, or with a date that no row
\* has, filters to an empty table, shows the "no data" warning, produces no
\* table and no download, and shows the "at least two portfolios" message in
\* place of the peer analysis.
C9_EmptySelectionIsNoError ==
    ss.set =>
        /\ run.status = "done"
        /\ NothingSelected =>
              /\ run.df_filt = <<>>
              /\ NoDataWarning \in run.shown
              /\ DOMAIN run.excel_data = {}
              /\ ~run.full_download
              /\ ~run.peer_controls
              /\ ~run.peer_computed
              /\ run.peer_shown = {TwoPortfoliosInfo}

\* the user unticked "Select all portfolios" and the script ran
C9_Witness ==
    /\ Shown
    /\ ss.portfolio_sel = {}
    /\ ~ss.portfolio_all
    /\ ss.scenario_sel # {}

\* C10 as stated: after every run the fact table is the one the workbook now
\* at FILE_PATH loads to (stated for a workbook that is there and loads).
C10_TableFollowsFile ==
    (Shown /\ ~stale /\ load_excel_total(file).outcome = "ok") =>
        run.df_total = to_date(load_excel_total(file).df)

=============================================================================
